---- MODULE Spec2Model ----
(***************************************************************************)
(* Model of ExpandedMCGate:                                                *)
(*   - Barenco._build / _2ctrl_version / _general_version (barenco.py),    *)
(*     run step by step; every emitted operation is recorded in `ops` and  *)
(*     at the same time applied to a computational-basis assignment of the *)
(*     control wires, so that the effect on the targets can be read off.   *)
(*   - ExtendedQuantumCircuit.mcx (circuit.py), one action per outcome.    *)
(*                                                                         *)
(* Targets: U = X and V is the operator of _get_V_instruction, V^4 = U.    *)
(* A target that starts in |0> and has received the net power k of V is in *)
(* the state V^k|0>.  V^8 = U^2 = I, so V^k = X iff k = 4 (mod 8) and      *)
(* V^k = I iff k = 0 (mod 8); for every other residue V^k is neither.      *)
(***************************************************************************)
EXTENDS Integers, Sequences, FiniteSets

\* ---- bounds ----------------------------------------------------------
MaxCtrl == 5
MaxTargets == 2
MaxAncilla == 4

\* ---- integer helpers (Python int operators used by the source) --------
RECURSIVE Pow2(_)
Pow2(k) == IF k <= 0 THEN 1 ELSE 2 * Pow2(k - 1)

\* a ^ b on non-negative ints
RECURSIVE Xor(_, _)
Xor(a, b) ==
    IF a = 0 THEN b
    ELSE IF b = 0 THEN a
    ELSE (((a % 2) + (b % 2)) % 2) + 2 * Xor(a \div 2, b \div 2)

\* int.bit_length()
RECURSIVE BitLength(_)
BitLength(a) == IF a = 0 THEN 0 ELSE 1 + BitLength(a \div 2)

\* int.bit_count()
RECURSIVE BitCount(_)
BitCount(a) == IF a = 0 THEN 0 ELSE (a % 2) + BitCount(a \div 2)

\* mutant: plain binary counting instead of the Gray code
GrayCodeBinary(i) == i

\* gray_code = i ^ i >> 1   (>> binds tighter than ^)
GrayCode(i) == Xor(i, i \div 2)

\* idx = int(gray_code).bit_length() - 1
CtrlIdx(code) == BitLength(code) - 1

\* diff = int(gray_code ^ previous).bit_length() - 1
DiffIdx(code, prev) == BitLength(Xor(code, prev)) - 1

\* parity = int(gray_code).bit_count() % 2 == 0
Parity(code) == BitCount(code) % 2 = 0

\* mutant: the cx always taken from the differing bit
ToggleSourceAlwaysDiff(idx, diff) == diff

\* first argument of self.cx(...) in the loop body
ToggleSource(idx, diff) == IF idx = diff THEN idx - 1 ELSE diff

\* mutant: the first cx skipped as well
EmitsToggleLate(i) == i > 2

\* mutant: the guard on the first pass dropped
EmitsToggleAlways(i) == TRUE

\* the guard "i != 1" of both cx branches
EmitsToggle(i) == i # 1

\* mutant: inverse never requested
RootVariantAlwaysV(code) == 1

\* variant appended for a code: inverse=True (V-dagger, -1) when parity, else V (+1)
RootVariant(code) == IF Parity(code) THEN -1 ELSE 1

\* Python list indexing: a negative index counts from the end
PyIndex(k, len) == IF k < 0 THEN k + len ELSE k

\* mutant: the last code left out
RangeEndShort(nc) == Pow2(nc) - 1

\* the number of passes of "for i in range(2**len(control_qubits))"
RangeEnd(nc) == Pow2(nc)

\* the dispatch test of _build
UsesTwoCtrlVersion(nc) == nc = 2

\* ---- operations ------------------------------------------------------
Toggle(s, d) == [op |-> "Toggle", src |-> s, dst |-> d, tgt |-> -1, variant |-> 0]
ApplyControlledRoot(c, t, v) == [op |-> "Root", src |-> c, dst |-> c, tgt |-> t, variant |-> v]

\* the order of V as an operator: V^4 = U = X and X^2 = I
RootOrder == 8
Flipped(k) == k % RootOrder = 4
Unflipped(k) == k % RootOrder = 0

VARIABLES
    pc,         \* position in _build / mcx
    numCtrl,    \* len(control_qubits)
    numTgt,     \* len(target_qubits)
    x0,         \* the basis assignment of the controls before the sequence
    wire,       \* the current value of each control wire
    power,      \* per target: signed number of V applied with control wire 1
    ops,        \* the emitted operation sequence
    i,          \* loop variable of _general_version
    previous,   \* previous Gray code
    t,          \* index of the next target in the running "for ... in target_qubits"
    mode,       \* mcx: the mode argument
    ancilla,    \* mcx: the ancilla_qubits argument
    data,       \* mcx: instructions appended to the circuit
    err         \* the exception raised, or NoError

vars == <<pc, numCtrl, numTgt, x0, wire, power, ops, i, previous, t,
          mode, ancilla, data, err>>

barencoVars == <<numCtrl, numTgt, x0, wire, power, ops, i, previous, t>>
mcxVars == <<mode, ancilla, data>>

NoError == [kind |-> "none", required |-> -1, supplied |-> -1, modes |-> <<>>]

Ctrl == 0 .. (numCtrl - 1)
Tgt == 0 .. (numTgt - 1)

\* self.cx(control_qubits[s], control_qubits[d]) on a basis state
ApplyCx(w, s, d, nc) ==
    LET ps == PyIndex(s, nc)
        pd == PyIndex(d, nc)
    IN  [w EXCEPT ![pd] = (w[pd] + w[ps]) % 2]

\* self.append(V or V-dagger, [control_qubits[c], target]) on a basis state
ApplyRoot(p, w, c, tg, v, nc) ==
    IF w[PyIndex(c, nc)] = 1 THEN [p EXCEPT ![tg] = p[tg] + v] ELSE p

\* ---- Barenco._build --------------------------------------------------
Init ==
    /\ pc = "build"
    /\ numCtrl \in 0 .. MaxCtrl
    /\ numTgt \in 1 .. MaxTargets
    /\ x0 \in [0 .. (numCtrl - 1) -> {0, 1}]
    /\ wire = x0
    /\ power = [tg \in 0 .. (numTgt - 1) |-> 0]
    /\ ops = <<>>
    /\ i = 0
    /\ previous = 0
    /\ t = 0
    /\ mode = "noancilla"
    /\ ancilla = [kind |-> "none", len |-> 0]
    /\ data = <<>>
    /\ err = NoError

\* the dispatch of _build
Build ==
    /\ pc = "build"
    /\ pc' = IF UsesTwoCtrlVersion(numCtrl) THEN "c2_V1" ELSE "gen_loop"
    /\ UNCHANGED <<barencoVars, mcxVars, err>>

\* ---- Barenco._2ctrl_version ------------------------------------------
\* the three "for qubit in target_qubits" loops are steps 1, 2, 3

\* mutant: the last loop controlled by control_qubits[1] too
TwoCtrlRootCtrlSame(step) == 1

\* index into control_qubits used by the append of a step
TwoCtrlRootCtrl(step) == IF step = 3 THEN 0 ELSE 1

\* inverse=True (-1) only in the second loop
TwoCtrlVariant(step) == IF step = 2 THEN -1 ELSE 1

\* self.cx(control_qubits[0], control_qubits[1])
TwoCtrlToggle == Toggle(0, 1)

TwoCtrlV1 ==
    /\ pc = "c2_V1"
    /\ t < numTgt
    /\ ops' = Append(ops, ApplyControlledRoot(TwoCtrlRootCtrl(1), t, TwoCtrlVariant(1)))
    /\ power' = ApplyRoot(power, wire, TwoCtrlRootCtrl(1), t, TwoCtrlVariant(1), numCtrl)
    /\ t' = IF t + 1 = numTgt THEN 0 ELSE t + 1
    /\ pc' = IF t + 1 = numTgt THEN "c2_cx1" ELSE "c2_V1"
    /\ UNCHANGED <<numCtrl, numTgt, x0, wire, i, previous, mcxVars, err>>

TwoCtrlCx1 ==
    /\ pc = "c2_cx1"
    /\ ops' = Append(ops, TwoCtrlToggle)
    /\ wire' = ApplyCx(wire, TwoCtrlToggle.src, TwoCtrlToggle.dst, numCtrl)
    /\ pc' = "c2_Vdg"
    /\ UNCHANGED <<numCtrl, numTgt, x0, power, i, previous, t, mcxVars, err>>

TwoCtrlVdg ==
    /\ pc = "c2_Vdg"
    /\ t < numTgt
    /\ ops' = Append(ops, ApplyControlledRoot(TwoCtrlRootCtrl(2), t, TwoCtrlVariant(2)))
    /\ power' = ApplyRoot(power, wire, TwoCtrlRootCtrl(2), t, TwoCtrlVariant(2), numCtrl)
    /\ t' = IF t + 1 = numTgt THEN 0 ELSE t + 1
    /\ pc' = IF t + 1 = numTgt THEN "c2_cx2" ELSE "c2_Vdg"
    /\ UNCHANGED <<numCtrl, numTgt, x0, wire, i, previous, mcxVars, err>>

TwoCtrlCx2 ==
    /\ pc = "c2_cx2"
    /\ ops' = Append(ops, TwoCtrlToggle)
    /\ wire' = ApplyCx(wire, TwoCtrlToggle.src, TwoCtrlToggle.dst, numCtrl)
    /\ pc' = "c2_V2"
    /\ UNCHANGED <<numCtrl, numTgt, x0, power, i, previous, t, mcxVars, err>>

TwoCtrlV2 ==
    /\ pc = "c2_V2"
    /\ t < numTgt
    /\ ops' = Append(ops, ApplyControlledRoot(TwoCtrlRootCtrl(3), t, TwoCtrlVariant(3)))
    /\ power' = ApplyRoot(power, wire, TwoCtrlRootCtrl(3), t, TwoCtrlVariant(3), numCtrl)
    /\ t' = IF t + 1 = numTgt THEN 0 ELSE t + 1
    /\ pc' = IF t + 1 = numTgt THEN "done" ELSE "c2_V2"
    /\ UNCHANGED <<numCtrl, numTgt, x0, wire, i, previous, mcxVars, err>>

\* ---- Barenco._general_version ----------------------------------------
\* "if i == 0: continue"
GenSkipZero ==
    /\ pc = "gen_loop"
    /\ i < RangeEnd(numCtrl)
    /\ i = 0
    /\ i' = i + 1
    /\ UNCHANGED <<pc, numCtrl, numTgt, x0, wire, power, ops, previous, t, mcxVars, err>>

\* a pass with i /= 0 up to and including the cx (if any)
GenToggle ==
    /\ pc = "gen_loop"
    /\ i < RangeEnd(numCtrl)
    /\ i # 0
    /\ LET gray_code == GrayCode(i)
           idx == CtrlIdx(gray_code)
           diff == DiffIdx(gray_code, previous)
           s == ToggleSource(idx, diff)
       IN  /\ previous' = gray_code
           /\ IF EmitsToggle(i)
              THEN /\ ops' = Append(ops, Toggle(s, idx))
                   /\ wire' = ApplyCx(wire, s, idx, numCtrl)
              ELSE UNCHANGED <<ops, wire>>
    /\ pc' = "gen_targets"
    /\ t' = 0
    /\ UNCHANGED <<numCtrl, numTgt, x0, power, i, mcxVars, err>>

\* one pass of "for target in target_qubits"; previous = gray_code since line 113,
\* so idx and parity of this pass are those of `previous`
GenAppendRoot ==
    /\ pc = "gen_targets"
    /\ t < numTgt
    /\ LET idx == CtrlIdx(previous)
           v == RootVariant(previous)
       IN  /\ ops' = Append(ops, ApplyControlledRoot(idx, t, v))
           /\ power' = ApplyRoot(power, wire, idx, t, v, numCtrl)
    /\ t' = IF t + 1 = numTgt THEN 0 ELSE t + 1
    /\ pc' = IF t + 1 = numTgt THEN "gen_loop" ELSE "gen_targets"
    /\ i' = IF t + 1 = numTgt THEN i + 1 ELSE i
    /\ UNCHANGED <<numCtrl, numTgt, x0, wire, previous, mcxVars, err>>

\* range exhausted
GenExit ==
    /\ pc = "gen_loop"
    /\ i >= RangeEnd(numCtrl)
    /\ pc' = "done"
    /\ UNCHANGED <<barencoVars, mcxVars, err>>

Next ==
    \/ Build
    \/ TwoCtrlV1
    \/ TwoCtrlCx1
    \/ TwoCtrlVdg
    \/ TwoCtrlCx2
    \/ TwoCtrlV2
    \/ GenSkipZero
    \/ GenToggle
    \/ GenAppendRoot
    \/ GenExit

Spec == Init /\ [][Next]_vars

\* ---- ExtendedQuantumCircuit.mcx --------------------------------------
\* mutant: the outdated names left out
KnownModesCurrentOnly ==
    <<"noancilla", "recursion", "v-chain", "v-chain-dirty">>

\* the keys of available_implementations, in insertion order
KnownModes ==
    <<"noancilla", "recursion", "v-chain", "v-chain-dirty",
      "advanced", "basic", "basic-dirty-ancilla">>

IsKnownMode(md) == \E k \in 1 .. Len(KnownModes) : KnownModes[k] = md

\* the gate class a mode selects
GateOf(md) ==
    IF md = "noancilla" THEN "MCXGrayCode"
    ELSE IF md \in {"recursion", "advanced"} THEN "MCXRecursive"
    ELSE "MCXVChain"

\* gate.num_ancilla_qubits (0 too when the gate has no such attribute)
RequiredAncillas(md, nc) ==
    IF GateOf(md) = "MCXGrayCode" THEN 0
    ELSE IF GateOf(md) = "MCXRecursive" THEN (IF nc > 4 THEN 1 ELSE 0)
    ELSE (IF nc > 2 THEN nc - 2 ELSE 0)

\* "ancilla_qubits is None"
IsNone(a) == a.kind = "none"

\* len(ancilla_qubits) after a value without __len__ was wrapped into a list
SuppliedLen(a) == IF a.kind = "scalar" THEN 1 ELSE a.len

\* mutant: off by one
TooFewOffByOne(supplied, required) == supplied + 1 < required

\* "len(ancilla_qubits) < required"
TooFew(supplied, required) == supplied < required

AncillaArgs ==
    {[kind |-> "none", len |-> 0], [kind |-> "scalar", len |-> 1]}
        \cup {[kind |-> "list", len |-> k] : k \in 0 .. MaxAncilla}

InitMcx ==
    /\ pc = "mcx"
    /\ numCtrl \in 1 .. MaxCtrl
    /\ mode \in {KnownModes[k] : k \in 1 .. Len(KnownModes)} \cup {"unknown-mode"}
    /\ ancilla \in AncillaArgs
    /\ data = <<>>
    /\ err = NoError
    /\ numTgt = 1
    /\ x0 = [c \in 0 .. (numCtrl - 1) |-> 0]
    /\ wire = x0
    /\ power = [tg \in 0 .. 0 |-> 0]
    /\ ops = <<>>
    /\ i = 0
    /\ previous = 0
    /\ t = 0

\* (the ancilla argument is taken to name qubits of the circuit, so the
\* qbit_argument_conversion check of line 100 passes)
\* KeyError on available_implementations[mode]
McxUnknownMode ==
    /\ pc = "mcx"
    /\ ~IsKnownMode(mode)
    /\ err' = [kind |-> "ValueError", required |-> -1, supplied |-> -1,
               modes |-> KnownModes]
    /\ pc' = "mcx_raised"
    /\ UNCHANGED <<barencoVars, mcxVars>>

\* ancillas needed, ancilla_qubits is None
McxNoAncillas ==
    /\ pc = "mcx"
    /\ IsKnownMode(mode)
    /\ RequiredAncillas(mode, numCtrl) > 0
    /\ IsNone(ancilla)
    /\ err' = [kind |-> "AttributeError", required |-> RequiredAncillas(mode, numCtrl),
               supplied |-> -1, modes |-> <<>>]
    /\ pc' = "mcx_raised"
    /\ UNCHANGED <<barencoVars, mcxVars>>

\* ancillas needed, fewer given
McxTooFew ==
    /\ pc = "mcx"
    /\ IsKnownMode(mode)
    /\ RequiredAncillas(mode, numCtrl) > 0
    /\ ~IsNone(ancilla)
    /\ TooFew(SuppliedLen(ancilla), RequiredAncillas(mode, numCtrl))
    /\ err' = [kind |-> "ValueError", required |-> RequiredAncillas(mode, numCtrl),
               supplied |-> SuppliedLen(ancilla), modes |-> <<>>]
    /\ pc' = "mcx_raised"
    /\ UNCHANGED <<barencoVars, mcxVars>>

\* self.append(gate, controls + [target] + ancilla_qubits[:required])
McxAppend ==
    /\ pc = "mcx"
    /\ IsKnownMode(mode)
    /\ LET required == RequiredAncillas(mode, numCtrl)
       IN  /\ (required > 0) =>
                  (~IsNone(ancilla) /\ ~TooFew(SuppliedLen(ancilla), required))
           /\ data' = Append(data, [gate |-> GateOf(mode), ctrl |-> numCtrl,
                                    ancillas |-> required])
    /\ pc' = "mcx_returned"
    /\ UNCHANGED <<barencoVars, mode, ancilla, err>>

NextMcx ==
    \/ McxUnknownMode
    \/ McxNoAncillas
    \/ McxTooFew
    \/ McxAppend

SpecMcx == InitMcx /\ [][NextMcx]_vars

\* ---- properties ------------------------------------------------------
Done == pc = "done"
AllOnes == \A c \in Ctrl : x0[c] = 1
ToggleCount == Cardinality({k \in 1 .. Len(ops) : ops[k].op = "Toggle"})
RootCount == Cardinality({k \in 1 .. Len(ops) : ops[k].op = "Root"})

\* C1: for n in {2,3,4,5} controls, all of them 1, and U = X, the emitted
\* sequence flips every target qubit.
C1_AllOnesFlipsEveryTarget ==
    (Done /\ numCtrl \in 2 .. 5 /\ AllOnes) => \A tg \in Tgt : Flipped(power[tg])

\* C2: for n in {2,3,4,5} controls of which at least one is 0, the signed
\* number of controlled-V applications whose control wire is 1 when applied
\* sums to 0 for each target, so no target is flipped.
C2_NotAllOnesNetZero ==
    (Done /\ numCtrl \in 2 .. 5 /\ ~AllOnes) =>
        \A tg \in Tgt : power[tg] = 0 /\ Unflipped(power[tg])

C2_Witness ==
    /\ Done
    /\ numCtrl = 4
    /\ numTgt = 2
    /\ x0 = [c \in 0 .. 3 |-> IF c = 3 THEN 0 ELSE 1]
    /\ RootCount = 30
    /\ \A tg \in Tgt : power[tg] = 0

\* C3: for n >= 2 controls, after the whole sequence every control wire holds
\* its original value.
C3_ControlsRestored ==
    (Done /\ numCtrl >= 2) => wire = x0

C3_Witness ==
    /\ Done
    /\ numCtrl = 3
    /\ x0 = [c \in 0 .. 2 |-> 1]
    /\ ToggleCount > 0
    /\ wire = x0

\* C4: with exactly 1 control, the sequence is exactly one singly-controlled-U
\* application per target, controlled by the single control, and no
\* controlled-root application.
C4_SingleControlEmitsControlledU ==
    (Done /\ numCtrl = 1) =>
        /\ Len(ops) = numTgt
        /\ \A k \in 1 .. Len(ops) :
              /\ ops[k].op = "ControlledU"
              /\ ops[k].src = 0
              /\ ops[k].tgt = k - 1

C6_RootCount ==
    (Done /\ numCtrl >= 3) => RootCount = (Pow2(numCtrl) - 1) * numTgt

C6_Witness ==
    /\ Done
    /\ numCtrl = 4
    /\ numTgt = 2
    /\ RootCount = 30

\* C7: for exactly 2 controls the sequence has exactly 2 toggles, both
\* Toggle(0, 1), and exactly 3*m controlled-root applications and nothing else;
\* for every target t, Root(1, t, V) comes before the first toggle,
\* Root(1, t, V-dagger) between the two toggles and Root(0, t, V) after the
\* second toggle.
C7_TwoCtrlSequence ==
    (Done /\ numCtrl = 2) =>
        /\ Len(ops) = 3 * numTgt + 2
        /\ ToggleCount = 2
        /\ RootCount = 3 * numTgt
        /\ \A k \in 1 .. Len(ops) :
              ops[k].op = "Toggle" => (ops[k].src = 0 /\ ops[k].dst = 1)
        /\ \E k1, k2 \in 1 .. Len(ops) :
              /\ k1 < k2
              /\ ops[k1].op = "Toggle"
              /\ ops[k2].op = "Toggle"
              /\ \A tg \in Tgt :
                    /\ \E k \in 1 .. (k1 - 1) :
                          ops[k].op = "Root" /\ ops[k].src = 1
                              /\ ops[k].tgt = tg /\ ops[k].variant = 1
                    /\ \E k \in (k1 + 1) .. (k2 - 1) :
                          ops[k].op = "Root" /\ ops[k].src = 1
                              /\ ops[k].tgt = tg /\ ops[k].variant = -1
                    /\ \E k \in (k2 + 1) .. Len(ops) :
                          ops[k].op = "Root" /\ ops[k].src = 0
                              /\ ops[k].tgt = tg /\ ops[k].variant = 1

C7_Witness ==
    /\ Done
    /\ numCtrl = 2
    /\ numTgt = 2
    /\ Len(ops) = 8
    /\ ops[3].op = "Toggle"
    /\ ops[6].op = "Toggle"

\* C8: for n >= 2 controls and m >= 2 targets, all targets end with the same
\* outcome: all flipped or all not flipped.
C8_TargetsAllFlippedOrAllNot ==
    (Done /\ numCtrl >= 2 /\ numTgt >= 2) =>
        \/ \A tg \in Tgt : Flipped(power[tg])
        \/ \A tg \in Tgt : Unflipped(power[tg])

\* C9: asked for 0 controls, the decomposition fails with InvalidInput and
\* emits nothing; it never returns normally.
C9_ZeroControlsInvalidInput ==
    (numCtrl = 0 /\ pc \notin {"build", "gen_loop", "gen_targets"}) =>
        /\ pc # "done"
        /\ err.kind = "InvalidInput"
        /\ ops = <<>>

\* ---- mcx --------------------------------------------------------------
McxFinished == pc \in {"mcx_raised", "mcx_returned"}
McxNeedsMore ==
    /\ IsKnownMode(mode)
    /\ RequiredAncillas(mode, numCtrl) > 0
    /\ (IsNone(ancilla) \/ SuppliedLen(ancilla) < RequiredAncillas(mode, numCtrl))

\* C10: a known mode needing k > 0 ancillas, called with fewer than k (or
\* with no ancilla argument), fails with the error kind of an unknown mode
\* (ValueError), stating the required and the supplied count, and appends
\* nothing.
C10_TooFewAncillasInvalidConfiguration ==
    (McxFinished /\ McxNeedsMore) =>
        /\ pc = "mcx_raised"
        /\ err.kind = "ValueError"
        /\ err.required = RequiredAncillas(mode, numCtrl)
        /\ err.supplied = (IF IsNone(ancilla) THEN 0 ELSE SuppliedLen(ancilla))
        /\ data = <<>>

\* C10 (amended): a known mode needing k > 0 ancillas appends nothing and
\* fails: with an ancilla argument of fewer than k qubits, with the error kind
\* of an unknown mode (ValueError), stating the required and the supplied
\* count; with no ancilla argument at all, with AttributeError, stating the
\* required count only.
C10_TooFewAncillasFails ==
    (McxFinished /\ McxNeedsMore) =>
        /\ pc = "mcx_raised"
        /\ data = <<>>
        /\ err.required = RequiredAncillas(mode, numCtrl)
        /\ IF IsNone(ancilla)
           THEN err.kind = "AttributeError" /\ err.supplied = -1
           ELSE err.kind = "ValueError" /\ err.supplied = SuppliedLen(ancilla)

C10_Witness ==
    /\ pc = "mcx_raised"
    /\ mode = "v-chain"
    /\ numCtrl = 5
    /\ ancilla = [kind |-> "list", len |-> 2]
    /\ err.kind = "ValueError"
    /\ err.required = 3
    /\ err.supplied = 2

\* C11: a mode string that is none of the known mode names fails with the
\* invalid-configuration error (ValueError) whose message lists every valid
\* mode name, and nothing is appended to the circuit.
C11_UnknownModeListsValidModes ==
    (McxFinished /\ mode \notin {"noancilla", "recursion", "v-chain", "v-chain-dirty",
                                 "advanced", "basic", "basic-dirty-ancilla"}) =>
        /\ pc = "mcx_raised"
        /\ err.kind = "ValueError"
        /\ {err.modes[k] : k \in 1 .. Len(err.modes)} =
              {"noancilla", "recursion", "v-chain", "v-chain-dirty",
               "advanced", "basic", "basic-dirty-ancilla"}
        /\ data = <<>>

C11_Witness ==
    /\ pc = "mcx_raised"
    /\ mode = "unknown-mode"
    /\ numCtrl = 3
    /\ ancilla = [kind |-> "list", len |-> 1]
    /\ err.kind = "ValueError"
    /\ Len(err.modes) = 7
    /\ data = <<>>

\* C12: in the general path with n >= 3 controls, for every assignment and
\* every pass i in 1 .. 2^n - 1, with code = i XOR (i >> 1) and ctrl_idx the
\* most significant set bit of code: when the controlled roots of pass i are
\* applied, wire ctrl_idx holds the XOR of the original values over the set
\* bits of code, every other control wire holds its original value, and the
\* variant applied is V for an odd number of set bits, V-dagger for an even one.
\* (Bit j of code is bit j of i XOR bit j+1 of i.  The pass looked at is i
\* while its roots are being appended, and i - 1 right after its last root.)
C12_GrayCodeWireInvariant ==
    (/\ numCtrl >= 3
     /\ \/ pc = "gen_targets"
        \/ pc = "gen_loop" /\ i >= 2) =>
        LET pass == IF pc = "gen_targets" THEN i ELSE i - 1
            emitted == IF pc = "gen_targets" THEN t ELSE numTgt
            bit(a, j) == (a \div Pow2(j)) % 2
            codeBits == {j \in Ctrl : (bit(pass, j) + bit(pass, j + 1)) % 2 = 1}
            ctrl_idx == CHOOSE j \in codeBits : \A k \in codeBits : k <= j
            xorOfOriginals == Cardinality({j \in codeBits : x0[j] = 1}) % 2
            variant == IF Cardinality(codeBits) % 2 = 1 THEN 1 ELSE -1
        IN  /\ pass \in 1 .. (Pow2(numCtrl) - 1)
            /\ codeBits # {}
            /\ wire[ctrl_idx] = xorOfOriginals
            /\ \A c \in Ctrl \ {ctrl_idx} : wire[c] = x0[c]
            /\ emitted <= Len(ops)
            /\ \A k \in (Len(ops) - emitted + 1) .. Len(ops) :
                  /\ ops[k].op = "Root"
                  /\ ops[k].src = ctrl_idx
                  /\ ops[k].variant = variant

\* pass i = 5 of 3 controls (code 111): wire 2 holds x0 ^ x1 ^ x2 = 0 for
\* (1, 0, 1), both roots of the pass (V) appended
C12_Witness ==
    /\ pc = "gen_loop"
    /\ numCtrl = 3
    /\ numTgt = 2
    /\ i = 6
    /\ x0 = [c \in 0 .. 2 |-> IF c = 1 THEN 0 ELSE 1]
    /\ wire = [c \in 0 .. 2 |-> IF c = 0 THEN 1 ELSE 0]
    /\ ops[Len(ops)].variant = 1
    /\ ops[Len(ops)].src = 2

\* C13: in the general path, pass i = 1 emits no toggle and every pass i >= 2
\* emits exactly one toggle, placed before that pass's controlled roots; every
\* emitted Toggle(source, dest) has dest = ctrl_idx of its pass and
\* 0 <= source < dest < n.
\* With m targets, pass 1 fills ops[1 .. m] and pass j >= 2 fills the m + 1
\* places that follow, its toggle first.
C13_OneToggleBeforeRoots ==
    (~UsesTwoCtrlVersion(numCtrl) /\ pc \in {"gen_loop", "gen_targets", "done"}) =>
        LET m == numTgt
            block == m + 1
            \* places filled by the passes 1 .. j
            upTo(j) == IF j <= 0 THEN 0 ELSE m + (j - 1) * block
            passOf(k) == IF k <= m THEN 1 ELSE 2 + ((k - m - 1) \div block)
            isToggleSlot(k) == k > m /\ (k - m - 1) % block = 0
            msb(j) == CHOOSE b \in 0 .. numCtrl : Pow2(b) <= j /\ j < Pow2(b + 1)
        IN  /\ Len(ops) =
                  IF pc = "gen_targets"
                  THEN upTo(i - 1) + (IF i >= 2 THEN 1 ELSE 0) + t
                  ELSE upTo(i - 1)
            /\ \A k \in 1 .. Len(ops) :
                  IF isToggleSlot(k)
                  THEN /\ ops[k].op = "Toggle"
                       /\ ops[k].dst = msb(passOf(k))
                       /\ 0 <= ops[k].src
                       /\ ops[k].src < ops[k].dst
                       /\ ops[k].dst < numCtrl
                       /\ (k < Len(ops)) =>
                             (ops[k + 1].op = "Root" /\ ops[k + 1].src = ops[k].dst)
                  ELSE ops[k].op = "Root"

\* 3 controls, 2 targets, all passes done: 6 toggles among 20 operations, the
\* first one Toggle(0, 1) in place 3, the one of pass 4 Toggle(1, 2) in place 9
C13_Witness ==
    /\ Done
    /\ numCtrl = 3
    /\ numTgt = 2
    /\ Len(ops) = 20
    /\ ToggleCount = 6
    /\ ops[3] = Toggle(0, 1)
    /\ ops[9] = Toggle(1, 2)

====
